---- MODULE Spec2Model ----
(***************************************************************************)
(* Model of the peer-group analysis engine of the Anomalous Access         *)
(* Detector (src/analysis.py) and of the calls src/ui.py makes to it.      *)
(*                                                                         *)
(* A DataFrame is a sequence of rows; a row is a record of the columns the *)
(* analysis reads.  A missing value (what pandas.read_csv yields for an    *)
(* empty field) is the value NaN.  The thresholds are Python floats; the   *)
(* model keeps the integer-valued ones and computes                        *)
(* threshold / 100.0 * users in IEEE-754 binary64, bit by bit.             *)
(***************************************************************************)
EXTENDS Integers, Sequences, FiniteSets, Bags, TLC

----------------------------------------------------------------------------
(* IEEE-754 binary64 arithmetic, as far as filter_entitlements uses it.    *)
(* A float is [s, m, e]: sign s in {-1, 0, 1}; the 53-bit mantissa m held  *)
(* as five digits, most significant first, m[1] the leading bit (1 unless  *)
(* the value is 0) and m[2..5] four digits of 13 bits each; e the exponent *)
(* of the leading bit:                                                     *)
(*   value = s * (m[1]*2^52 + m[2]*2^39 + m[3]*2^26 + m[4]*2^13 + m[5])    *)
(*             * 2^(e - 52).                                               *)
(* Results are rounded to nearest, ties to even, as the hardware does.     *)

RECURSIVE Pow2(_)
Pow2(n) == IF n = 0 THEN 1 ELSE 2 * Pow2(n - 1)

RECURSIVE Log2(_)
\* floor(log2 n) for n >= 1
Log2(n) == IF n < 2 THEN 0 ELSE 1 + Log2(n \div 2)

DigitBits == 13

Base == Pow2(DigitBits)

FloatZero == [s |-> 0, m |-> <<0, 0, 0, 0, 0>>, e |-> 0]

Abs(n) == IF n < 0 THEN -n ELSE n

Sign(n) == IF n < 0 THEN -1 ELSE IF n = 0 THEN 0 ELSE 1

RECURSIVE IncDigits(_, _)
\* m + 1, the carry running from digit i towards m[1]; m[1] = 2 afterwards
\* says the mantissa overflowed to 2^53
IncDigits(m, i) ==
    IF i = 1 THEN [m EXCEPT ![1] = m[1] + 1]
    ELSE IF m[i] < Base - 1 THEN [m EXCEPT ![i] = m[i] + 1]
    ELSE IncDigits([m EXCEPT ![i] = 0], i - 1)

\* round to nearest, ties to even: m are the kept bits, up says the dropped
\* part is above one half, tie that it is exactly one half
RoundFloat(s, m, e, up, tie) ==
    IF up \/ (tie /\ m[5] % 2 = 1)
    THEN LET inc == IncDigits(m, 5)
         IN  IF inc[1] = 2
             THEN [s |-> s, m |-> <<1, 0, 0, 0, 0>>, e |-> e + 1]
             ELSE [s |-> s, m |-> inc, e |-> e]
    ELSE [s |-> s, m |-> m, e |-> e]

RECURSIVE DivDigits(_, _, _, _)
\* long division: q extended by the next n quotient digits of r / den
\* (r < den), with the final remainder
DivDigits(q, r, den, n) ==
    IF n = 0 THEN [q |-> q, r |-> r]
    ELSE DivDigits(Append(q, (r * Base) \div den), (r * Base) % den, den, n - 1)

\* a / b for integer-valued floats a and b > 0, correctly rounded
FloatDivInt(a, b) ==
    IF a = 0 THEN FloatZero
    ELSE LET n   == Abs(a)
             up  == IF n >= b THEN Log2(n \div b) ELSE 0
             dn  == IF n >= b THEN 0
                    ELSE CHOOSE j \in 1..30 :
                           /\ n * Pow2(j) >= b
                           /\ n * Pow2(j - 1) < b
             num == n * Pow2(dn)
             den == b * Pow2(up)
             d   == DivDigits(<<1>>, num - den, den, 4)
         IN  RoundFloat(Sign(a), d.q, up - dn, 2 * d.r > den, 2 * d.r = den)

\* float(n): exact for the integers the analysis meets
FloatOfInt(n) == FloatDivInt(n, 1)

RECURSIVE MulDigits(_, _, _, _)
\* m * u from the least significant digit m[i] upwards, carry c: the
\* product's digits, the first one holding all that exceeds 2^52
MulDigits(m, u, i, c) ==
    IF i = 1 THEN <<m[1] * u + c>>
    ELSE Append(MulDigits(m, u, i - 1, (m[i] * u + c) \div Base),
                (m[i] * u + c) % Base)

\* the digits p (p[1] < 2^(sh+1)) shifted right by sh <= DigitBits bits
ShiftDigits(p, sh) ==
    [i \in 1..5 |->
        IF i = 1 THEN p[1] \div Pow2(sh)
        ELSE (p[i - 1] % Pow2(sh)) * Pow2(DigitBits - sh) + p[i] \div Pow2(sh)]

\* x * float(u) for a float x and an integer u, correctly rounded
FloatMulInt(x, u) ==
    IF x.s = 0 \/ u = 0 THEN FloatZero
    ELSE LET p    == MulDigits(x.m, Abs(u), 5, 0)
             sh   == Log2(p[1])
             lost == p[5] % Pow2(sh)
             half == IF sh = 0 THEN 1 ELSE Pow2(sh - 1)
         IN  RoundFloat(x.s * Sign(u), ShiftDigits(p, sh), x.e + sh,
                        lost > half, sh > 0 /\ lost = half)

\* a < b for two mantissas of equal exponent
DigitsLess(a, b) ==
    \E i \in 1..5 : /\ a[i] < b[i]
                    /\ \A j \in 1..(i - 1) : a[j] = b[j]

\* x < y on floats
FloatLess(x, y) ==
    IF x.s # y.s THEN x.s < y.s
    ELSE IF x.s = 0 THEN FALSE
    ELSE LET magLess(a, b) == \/ a.e < b.e
                              \/ a.e = b.e /\ DigitsLess(a.m, b.m)
         IN  IF x.s = 1 THEN magLess(x, y) ELSE magLess(y, x)

\* count >= ratio and count <= ratio, count an int64 and ratio a float
IntGeFloat(c, x) == ~FloatLess(FloatOfInt(c), x)

IntLeFloat(c, x) == ~FloatLess(x, FloatOfInt(c))

----------------------------------------------------------------------------
(* DataFrames.                                                             *)

\* a missing value: what read_csv yields for an empty field
NaN == "NaN"

\* df[col].nunique(): the distinct values of a column, NaN not counted
nunique(frame, col) ==
    Cardinality({frame[i][col] : i \in 1..Len(frame)} \ {NaN})

\* the key of row r under the grouping columns cols
KeyOf(r, cols) == [i \in 1..Len(cols) |-> r[cols[i]]]

\* df.groupby(cols) with cols a list: key tuple -> the rows of that key in
\* frame order; rows with a NaN in a key column are dropped (dropna=True,
\* the default)
groupby(frame, cols) ==
    LET keyed == {i \in 1..Len(frame) :
                    \A c \in 1..Len(cols) : frame[i][cols[c]] # NaN}
        keys  == {KeyOf(frame[i], cols) : i \in keyed}
    IN  [k \in keys |-> SelectSeq(frame, LAMBDA r : KeyOf(r, cols) = k)]

\* set(zip(frame["Role"], frame["Entitlement"]))
RoleEntSet(frame) ==
    {<<frame[i].Role, frame[i].Entitlement>> : i \in 1..Len(frame)}

RECURSIVE BagSum(_)
\* the records appended over a whole loop: f maps each iteration to the bag
\* of records it appends
BagSum(f) ==
    IF DOMAIN f = {} THEN EmptyBag
    ELSE LET x == CHOOSE y \in DOMAIN f : TRUE
         IN  f[x] (+) BagSum([y \in DOMAIN f \ {x} |-> f[y]])

----------------------------------------------------------------------------
(* src/analysis.py                                                         *)

get_peer_groups(frame, peer_group) ==
    IF peer_group = "Department-wide"
    THEN groupby(frame, <<"Department">>)
    ELSE groupby(frame, <<"Department", "Title">>)

\* <<users, ent_counts>>: ent_counts maps each (Role, Entitlement) of the
\* group to the number of distinct UserIDs holding it
get_entitlement_counts(group_df) ==
    LET by_ent == groupby(group_df, <<"Role", "Entitlement">>)
    IN  << nunique(group_df, "UserID"),
           [ent \in DOMAIN by_ent |-> nunique(by_ent[ent], "UserID")] >>

\* filter_entitlements with the two comparisons exchanged
filter_entitlements_inverted(ent_counts, users, thr, is_baseline) ==
    LET threshold_ratio == FloatMulInt(FloatDivInt(thr, 100), users)
    IN  IF is_baseline
        THEN {ent \in DOMAIN ent_counts :
                IntLeFloat(ent_counts[ent], threshold_ratio)}
        ELSE {ent \in DOMAIN ent_counts :
                IntGeFloat(ent_counts[ent], threshold_ratio)}

filter_entitlements(ent_counts, users, thr, is_baseline) ==
    LET threshold_ratio == FloatMulInt(FloatDivInt(thr, 100), users)
    IN  IF is_baseline
        THEN {ent \in DOMAIN ent_counts :
                IntGeFloat(ent_counts[ent], threshold_ratio)}
        ELSE {ent \in DOMAIN ent_counts :
                IntLeFloat(ent_counts[ent], threshold_ratio)}

\* baseline_access counting over the whole DataFrame instead of the group
baseline_access_ungrouped(frame, baseline_threshold, peer_group) ==
    LET group_obj == get_peer_groups(frame, peer_group)
    IN  [group \in DOMAIN group_obj |->
           LET counts == get_entitlement_counts(frame)
           IN  filter_entitlements(counts[2], counts[1],
                                   baseline_threshold, TRUE)]

\* dict: group -> set of (Role, Entitlement)
baseline_access(frame, baseline_threshold, peer_group) ==
    LET group_obj == get_peer_groups(frame, peer_group)
    IN  [group \in DOMAIN group_obj |->
           LET counts == get_entitlement_counts(group_obj[group])
           IN  filter_entitlements(counts[2], counts[1],
                                   baseline_threshold, TRUE)]

\* user_anomalies with the two columns of the record exchanged
user_anomalies_swapped(group, user, user_df, rare) ==
    LET username  == user_df[1].Username
        user_ents == RoleEntSet(user_df)
    IN  SetToBag({[Group |-> group, UserID |-> user, Username |-> username,
                   Role |-> ent[2], Entitlement |-> ent[1]] :
                  ent \in user_ents \cap rare})

\* the records appended for one user of one group (lines 75-87)
user_anomalies(group, user, user_df, rare) ==
    LET username  == user_df[1].Username
        user_ents == RoleEntSet(user_df)
    IN  SetToBag({[Group |-> group, UserID |-> user, Username |-> username,
                   Role |-> ent[1], Entitlement |-> ent[2]] :
                  ent \in user_ents \cap rare})

\* the returned DataFrame, as the bag of its rows
anomalies(frame, anomaly_threshold, peer_group) ==
    LET group_obj == get_peer_groups(frame, peer_group)
        of_group(group) ==
            LET group_df == group_obj[group]
                counts   == get_entitlement_counts(group_df)
                rare     == filter_entitlements(counts[2], counts[1],
                                                anomaly_threshold, FALSE)
                by_user  == groupby(group_df, <<"UserID">>)
            IN  BagSum([u \in DOMAIN by_user |->
                          user_anomalies(group, u[1], by_user[u], rare)])
    IN  BagSum([group \in DOMAIN group_obj |-> of_group(group)])

\* group_gaps without the set difference: every baseline pair is reported
group_gaps_no_difference(group, group_df, baseline_map) ==
    IF group \in DOMAIN baseline_map
    THEN SetToBag({[Group |-> group, Role |-> ent[1],
                    Entitlement |-> ent[2]] : ent \in baseline_map[group]})
    ELSE EmptyBag

\* group_gaps comparing the baseline with each identity's own pairs: a pair
\* is reported when some identity of the group lacks it
group_gaps_per_identity(group, group_df, baseline_map) ==
    LET by_user == groupby(group_df, <<"UserID">>)
    IN  IF group \in DOMAIN baseline_map
        THEN SetToBag({[Group |-> group, Role |-> ent[1],
                        Entitlement |-> ent[2]] :
                       ent \in {e \in baseline_map[group] :
                                  \E u \in DOMAIN by_user :
                                    e \notin RoleEntSet(by_user[u])}})
        ELSE EmptyBag

\* group_gaps falling back, for a group without a baseline, on the pairs of
\* all the baselines
group_gaps_default(group, group_df, baseline_map) ==
    LET user_ents == RoleEntSet(group_df)
        expected  == IF group \in DOMAIN baseline_map
                     THEN baseline_map[group]
                     ELSE UNION {baseline_map[k] : k \in DOMAIN baseline_map}
    IN  SetToBag({[Group |-> group, Role |-> ent[1],
                   Entitlement |-> ent[2]] : ent \in expected \ user_ents})

\* the records appended for one group (lines 100-110)
group_gaps(group, group_df, baseline_map) ==
    LET user_ents == RoleEntSet(group_df)
    IN  IF group \in DOMAIN baseline_map
        THEN SetToBag({[Group |-> group, Role |-> ent[1],
                        Entitlement |-> ent[2]] :
                       ent \in baseline_map[group] \ user_ents})
        ELSE EmptyBag

\* the returned DataFrame, as the bag of its rows
gap_report(frame, baseline_map, peer_group) ==
    LET group_obj == get_peer_groups(frame, peer_group)
    IN  BagSum([group \in DOMAIN group_obj |->
                  group_gaps(group, group_obj[group], baseline_map)])

----------------------------------------------------------------------------
(* src/ui.py                                                               *)

\* df[df['Title'].notnull() & (df['Title'].astype(str).str.strip() != '')]
df_baseline(frame) == SelectSeq(frame, LAMBDA r : r.Title # NaN /\ r.Title # "")

\* df[df['Title'].isnull() | (df['Title'].astype(str).str.strip() == '')]
df_untitled(frame) == SelectSeq(frame, LAMBDA r : r.Title = NaN \/ r.Title = "")

----------------------------------------------------------------------------
(* Inputs.                                                                 *)

\* the longest uploaded file of the exhaustive inputs
MaxRows == 3

\* the largest peer group of the generated inputs
MaxBulk == 25

UserIds == <<"u01", "u02", "u03", "u04", "u05", "u06", "u07", "u08", "u09",
             "u10", "u11", "u12", "u13", "u14", "u15", "u16", "u17", "u18",
             "u19", "u20", "u21", "u22", "u23", "u24", "u25", "u26", "u27">>

Entitlements == <<"E", "F">>

Titles == <<"T", NaN>>

Departments == <<"X", "Y">>

Row(user, ent, title, dept) ==
    [UserID |-> user, Username |-> user, Role |-> "R", Entitlement |-> ent,
     Title |-> title, Department |-> dept]

\* the rows of the exhaustive inputs, numbered in the order of an export
\* sorted by identity, entitlement, title, department: two identities, two
\* entitlements, a title or none, two departments
RowNumbers == 0..15

RowAt(n) ==
    Row(UserIds[(n \div 8) + 1], Entitlements[((n \div 4) % 2) + 1],
        Titles[((n \div 2) % 2) + 1], Departments[(n % 2) + 1])

\* every sorted file of at most MaxRows rows, repeated rows included; the
\* analysis reads no row position but the first row of an identity, and here
\* all rows of an identity carry one Username
SmallFrames ==
    UNION {{[i \in 1..n |-> RowAt(c[i])] :
              c \in {x \in [1..n -> RowNumbers] :
                       \A i \in 1..(n - 1) : x[i] <= x[i + 1]}}
           : n \in 0..MaxRows}

\* n identities of department X, one row each: the first k hold (R, E), the
\* others (R, F)
Bulk(n, k) ==
    [i \in 1..n |-> Row(UserIds[i], IF i <= k THEN "E" ELSE "F", "T", "X")]

BulkFrames == UNION {{Bulk(n, k) : k \in 0..n} : n \in 1..MaxBulk}

PeerGroups == {"Department-wide", "Department + Title"}

\* thresholds tried on the exhaustive inputs; 0 and 150 lie outside (0, 100]
Thresholds == {0, 50, 100, 150}

\* thresholds tried on the generated inputs
BulkThresholds == {2, 15, 28, 95}

InRange(thr) == 0 < thr /\ thr <= 100

----------------------------------------------------------------------------
(* State: the uploaded DataFrame and one call of an analysis function,     *)
(* with its arguments and what it gave back.  The functions keep nothing   *)
(* between calls and Streamlit runs the script anew on every interaction,  *)
(* so the state holds one call at a time; Rerun starts the next one.       *)

VARIABLES
    df,           \* the uploaded DataFrame (ui.py:23)
    fn,           \* the analysis function called last, "none" before any
    records,      \* the DataFrame passed to it: df or df_baseline
    threshold,    \* its threshold argument (0 for gap_report)
    peer_group,   \* its peer_group_type argument
    baseline,     \* baseline_access: the dict returned;
                  \* gap_report: the dict passed
    result,       \* anomalies, gap_report: the rows of the DataFrame returned
    raised,       \* the exception the call raised, "none" if it returned
    again,        \* what a second call with the same arguments gave back
    file,         \* the CSV file: uploaded (ui.py:19) or at file_path
    pc,           \* ui.py: the statement the script run has reached
    config,       \* ui.py: the values of the configuration widgets
    script_baseline,  \* ui.py: the script's variable baseline (line 73)
    defined       \* ui.py: the names bound by the def statements executed

\* the state of a run of the ui.py script
scriptvars == <<file, pc, config, script_baseline, defined>>

vars == <<df, fn, records, threshold, peer_group, baseline, result, raised,
          again, file, pc, config, script_baseline, defined>>

EmptyDict == [k \in {} |-> {}]

NoCall ==
    /\ fn = "none"
    /\ records = <<>>
    /\ threshold = 0
    /\ peer_group = "Department-wide"
    /\ baseline = EmptyDict
    /\ result = EmptyBag
    /\ raised = "none"

\* no second call was made
NoRepeat ==
    again = [called |-> FALSE, records |-> <<>>, baseline |-> EmptyDict,
             result |-> EmptyBag]

\* a file that does not matter: the DataFrame is given
NoFile == [exists |-> FALSE, kind |-> "csv", columns |-> "required",
           rows |-> <<>>]

\* the widgets as the page first shows them (ui.py:35-49)
DefaultConfig == [anomaly_threshold |-> 2, baseline_threshold |-> 95,
                  peer_group |-> "Department-wide"]

\* the analysis functions are called directly, outside a script run
NoScript ==
    /\ file = NoFile
    /\ pc = "none"
    /\ config = DefaultConfig
    /\ script_baseline = EmptyDict
    /\ defined = {}

Init == df \in SmallFrames /\ NoCall /\ NoRepeat /\ NoScript

InitBulk == df \in BulkFrames /\ NoCall /\ NoRepeat /\ NoScript

\* the frames ui.py selects from the upload: the upload itself, its titled
\* rows and its untitled rows
Frames == {df, df_baseline(df), df_untitled(df)}

BaselineAccess(frame, thr, pg) ==
    /\ fn' = "baseline_access"
    /\ records' = frame
    /\ threshold' = thr
    /\ peer_group' = pg
    /\ baseline' = baseline_access(frame, thr, pg)
    /\ result' = EmptyBag
    /\ raised' = "none"
    /\ UNCHANGED df

Anomalies(frame, thr, pg) ==
    /\ fn' = "anomalies"
    /\ records' = frame
    /\ threshold' = thr
    /\ peer_group' = pg
    /\ baseline' = EmptyDict
    /\ result' = anomalies(frame, thr, pg)
    /\ raised' = "none"
    /\ UNCHANGED df

GapReport(frame, baseline_map, pg) ==
    /\ fn' = "gap_report"
    /\ records' = frame
    /\ threshold' = 0
    /\ peer_group' = pg
    /\ baseline' = baseline_map
    /\ result' = gap_report(frame, baseline_map, pg)
    /\ raised' = "none"
    /\ UNCHANGED df

\* the script runs again on the same upload
Rerun ==
    /\ fn # "none"
    /\ fn' = "none"
    /\ records' = <<>>
    /\ threshold' = 0
    /\ peer_group' = "Department-wide"
    /\ baseline' = EmptyDict
    /\ result' = EmptyBag
    /\ raised' = "none"
    /\ again' = [called |-> FALSE, records |-> <<>>, baseline |-> EmptyDict,
                 result |-> EmptyBag]
    /\ UNCHANGED df
    /\ UNCHANGED scriptvars

\* the baseline dicts handed to gap_report: what baseline_access returns on
\* a frame of the upload, under either grouping
BaselineMaps(thrs) ==
    {baseline_access(f, t, pg) : f \in Frames, t \in {x \in thrs : InRange(x)},
                                 pg \in PeerGroups}

CallBaselineAccess ==
    /\ fn = "none"
    /\ \E f \in Frames, t \in Thresholds, pg \in PeerGroups :
           BaselineAccess(f, t, pg)
    /\ UNCHANGED <<again, scriptvars>>

CallAnomalies ==
    /\ fn = "none"
    /\ \E f \in Frames, t \in Thresholds, pg \in PeerGroups :
           Anomalies(f, t, pg)
    /\ UNCHANGED <<again, scriptvars>>

CallGapReport ==
    /\ fn = "none"
    /\ \E f \in Frames, pg \in PeerGroups :
           \E b \in BaselineMaps(Thresholds) : GapReport(f, b, pg)
    /\ UNCHANGED <<again, scriptvars>>

Next == CallBaselineAccess \/ CallAnomalies \/ CallGapReport \/ Rerun

Spec == Init /\ [][Next]_vars

BulkBaselineAccess ==
    /\ fn = "none"
    /\ \E t \in BulkThresholds, pg \in PeerGroups : BaselineAccess(df, t, pg)
    /\ UNCHANGED <<again, scriptvars>>

BulkAnomalies ==
    /\ fn = "none"
    /\ \E t \in BulkThresholds, pg \in PeerGroups : Anomalies(df, t, pg)
    /\ UNCHANGED <<again, scriptvars>>

BulkGapReport ==
    /\ fn = "none"
    /\ \E pg \in PeerGroups :
           \E b \in BaselineMaps(BulkThresholds) : GapReport(df, b, pg)
    /\ UNCHANGED <<again, scriptvars>>

NextBulk == BulkBaselineAccess \/ BulkAnomalies \/ BulkGapReport \/ Rerun

SpecBulk == InitBulk /\ [][NextBulk]_vars

\* Repeat for a gap_report that computes baseline[group] - user_ents in
\* place: the dict it was given keeps only the missing pairs
Repeat_in_place ==
    /\ fn # "none"
    /\ ~again.called
    /\ LET groups == get_peer_groups(records, peer_group)
           left   == [k \in DOMAIN baseline |->
                        IF fn = "gap_report" /\ k \in DOMAIN groups
                        THEN baseline[k] \ RoleEntSet(groups[k])
                        ELSE baseline[k]]
       IN  again' =
             [called   |-> TRUE,
              records  |-> records,
              baseline |-> IF fn = "baseline_access"
                           THEN baseline_access(records, threshold, peer_group)
                           ELSE left,
              result   |-> CASE fn = "anomalies" ->
                                  anomalies(records, threshold, peer_group)
                             [] fn = "gap_report" ->
                                  gap_report(records, left, peer_group)
                             [] OTHER -> EmptyBag]
    /\ UNCHANGED <<df, fn, records, threshold, peer_group, baseline, result,
                   raised, scriptvars>>

\* the function called last is called once more with the arguments of that
\* call, as the first call left them: analysis.py assigns to no item of the
\* DataFrame or of the dict it is given (line 104 builds a new set) and to
\* no module-level name
Repeat ==
    /\ fn # "none"
    /\ ~again.called
    /\ again' =
         [called   |-> TRUE,
          records  |-> records,
          baseline |-> IF fn = "baseline_access"
                       THEN baseline_access(records, threshold, peer_group)
                       ELSE baseline,
          result   |-> CASE fn = "anomalies" ->
                              anomalies(records, threshold, peer_group)
                         [] fn = "gap_report" ->
                              gap_report(records, baseline, peer_group)
                         [] OTHER -> EmptyBag]
    /\ UNCHANGED <<df, fn, records, threshold, peer_group, baseline, result,
                   raised, scriptvars>>

NextTwice ==
    CallBaselineAccess \/ CallAnomalies \/ CallGapReport \/ Repeat \/ Rerun

SpecTwice == Init /\ [][NextTwice]_vars

----------------------------------------------------------------------------
(* A run of the ui.py script on an uploaded file.  Streamlit runs the       *)
(* script from the top; pc is the statement reached.  The calls of lines    *)
(* 73-75 are the actions BaselineAccess, Anomalies and GapReport above, on  *)
(* the frames and widget values the script passes.                          *)

\* the longest uploaded file of the script runs
MaxUploadRows == 2

UploadRow(user, name, role, ent, title, dept) ==
    [UserID |-> user, Username |-> name, Role |-> role, Entitlement |-> ent,
     Title |-> title, Department |-> dept]

\* the rows of the uploaded files: an identity under two display names, with
\* or without a title, in either department; a second identity; and rows
\* with an empty field, which read_csv turns into NaN
UploadRows ==
    {UploadRow("u01", n, "R", "E", t, d) :
       n \in {"Ann", "Bea"}, t \in {"T", NaN}, d \in {"X", "Y"}}
    \cup {UploadRow("u02", "Cy", "R", e, "T", "X") : e \in {"E", "F"}}
    \cup {UploadRow(NaN, "Ann", "R", "E", "T", "X"),
          UploadRow("u01", "Ann", NaN, "E", "T", "X"),
          UploadRow("u01", "Ann", "R", NaN, "T", "X"),
          UploadRow("u01", "Ann", "R", "E", "T", NaN)}

CsvFile(columns, rows) ==
    [exists |-> TRUE, kind |-> "csv", columns |-> columns, rows |-> rows]

\* the files a user uploads: CSV files with the required header and at most
\* MaxUploadRows rows in any order, files with another header, a file of
\* zero bytes and a file that is no CSV
UploadedFiles ==
    UNION {{CsvFile("required", rows) : rows \in [1..n -> UploadRows]}
           : n \in 0..MaxUploadRows}
    \cup {CsvFile(c, <<>>) : c \in {"missing", "extra", "reordered"}}
    \cup {[exists |-> TRUE, kind |-> k, columns |-> "required", rows |-> <<>>]
          : k \in {"empty", "malformed"}}

\* values of the two number_input widgets (0.1 to 100.0, defaults 2.0 and
\* 95.0), as whole percentages
WidgetThresholds == {2, 95, 100}

InitUI ==
    /\ file \in UploadedFiles
    /\ df = <<>>
    /\ NoCall
    /\ NoRepeat
    /\ pc = "read_csv"
    /\ config = DefaultConfig
    /\ script_baseline = EmptyDict
    /\ defined = {}

\* lines 22-30: read_csv raises EmptyDataError or ParserError, which the
\* except of line 456 reports; otherwise the header is compared
ReadCsv ==
    /\ pc = "read_csv"
    /\ IF file.kind # "csv"
       THEN pc' = "error" /\ df' = df
       ELSE /\ df' = file.rows
            /\ pc' = IF file.columns # "required" THEN "schema_error"
                     ELSE "configure"
    /\ UNCHANGED <<fn, records, threshold, peer_group, baseline, result,
                   raised, again, file, config, script_baseline, defined>>

\* lines 32-65: the widgets give their values
Configure ==
    /\ pc = "configure"
    /\ \E a \in WidgetThresholds, b \in WidgetThresholds, pg \in PeerGroups :
         config' = [anomaly_threshold |-> a, baseline_threshold |-> b,
                    peer_group |-> pg]
    /\ pc' = "baseline_access"
    /\ UNCHANGED <<df, fn, records, threshold, peer_group, baseline, result,
                   raised, again, file, script_baseline, defined>>

\* lines 68 and 73
RunBaselineAccess ==
    /\ pc = "baseline_access"
    /\ BaselineAccess(df_baseline(df), config.baseline_threshold,
                      config.peer_group)
    /\ script_baseline' = baseline_access(df_baseline(df),
                                          config.baseline_threshold,
                                          config.peer_group)
    /\ pc' = "anomalies"
    /\ UNCHANGED <<again, file, config, defined>>

\* line 74
RunAnomalies ==
    /\ pc = "anomalies"
    /\ Anomalies(df, config.anomaly_threshold, config.peer_group)
    /\ pc' = "gap_report"
    /\ UNCHANGED <<again, file, config, script_baseline, defined>>

\* line 75
RunGapReport ==
    /\ pc = "gap_report"
    /\ GapReport(df, script_baseline, config.peer_group)
    /\ pc' = "baseline_section"
    /\ UNCHANGED <<again, file, config, script_baseline, defined>>

\* lines 81-93: the rows of baseline_df, one for each group and role of its
\* baseline set
baseline_table(baseline_map) ==
    UNION {{[Department |-> group[1], Role |-> ent[1]] :
              ent \in baseline_map[group]} : group \in DOMAIN baseline_map}

\* lines 77-384: the three def statements (lines 98, 311, 331) are inside
\* "if peer_group == 'Department-wide'" and "if not baseline_df.empty"
BaselineSection ==
    /\ pc = "baseline_section"
    /\ defined' =
         IF config.peer_group = "Department-wide"
            /\ baseline_table(script_baseline) # {}
         THEN defined \cup {"generate_pdf_report", "generate_baseline_pdf",
                            "generate_full_report_pdf"}
         ELSE defined
    /\ pc' = "full_pdf"
    /\ UNCHANGED <<df, fn, records, threshold, peer_group, baseline, result,
                   raised, again, file, config, script_baseline>>

\* lines 445-457: the call of generate_full_report_pdf raises NameError when
\* the name is unbound, and the except of line 456 shows "Error processing
\* file"
FullPdf ==
    /\ pc = "full_pdf"
    /\ pc' = IF "generate_full_report_pdf" \in defined THEN "done"
             ELSE "error"
    /\ UNCHANGED <<df, fn, records, threshold, peer_group, baseline, result,
                   raised, again, file, config, script_baseline, defined>>

NextUI ==
    \/ ReadCsv
    \/ Configure
    \/ RunBaselineAccess
    \/ RunAnomalies
    \/ RunGapReport
    \/ BaselineSection
    \/ FullPdf

SpecUI == InitUI /\ [][NextUI]_vars

----------------------------------------------------------------------------
(* src/ingest.py                                                           *)

\* df.head(5)
PreviewRows == 5

\* validate_and_preview_csv(file_path) on the file f at that path: the
\* exception raised ("none" if it returns) and the value returned.  read_csv
\* raises EmptyDataError on a file of zero bytes and ParserError on a file
\* it cannot parse; lines 68-71 catch both and raise ValueError instead
validate_and_preview_csv(f) ==
    LET failed(exception) == [raised |-> exception, value |-> <<>>]
    IN  IF ~f.exists THEN failed("FileNotFoundError")
        ELSE IF f.kind = "empty" THEN failed("ValueError")
        ELSE IF f.kind = "malformed" THEN failed("ValueError")
        ELSE IF f.rows = <<>> THEN failed("ValueError")
        ELSE IF f.columns # "required" THEN failed("ValueError")
        ELSE IF \E i \in 1..Len(f.rows) :
                  \E col \in {"UserID", "Role", "Entitlement", "Department"} :
                    f.rows[i][col] = NaN
             THEN failed("ValueError")
        ELSE [raised |-> "none",
              value  |-> SubSeq(f.rows, 1,
                                IF Len(f.rows) < PreviewRows THEN Len(f.rows)
                                ELSE PreviewRows)]

\* the longest file given to validate_and_preview_csv
MaxIngestRows == 6

\* n rows of n identities, and the same with one field of one row empty
IngestFrames ==
    UNION {LET rows == [i \in 1..n |-> UploadRow(UserIds[i], UserIds[i],
                                                 "R", "E", "T", "X")]
           IN  {rows} \cup
               {[rows EXCEPT ![i][col] = NaN] :
                  i \in 1..n,
                  col \in {"UserID", "Role", "Entitlement", "Department",
                           "Title"}}
           : n \in 0..MaxIngestRows}

\* the files at file_path: none, one of zero bytes, one that is no CSV, and
\* CSV files with the required header or another one
IngestFiles ==
    {NoFile}
    \cup {[exists |-> TRUE, kind |-> k, columns |-> "required", rows |-> <<>>]
          : k \in {"empty", "malformed"}}
    \cup {CsvFile(c, rows) :
            c \in {"required", "missing", "extra", "reordered"},
            rows \in IngestFrames}

InitIngest ==
    /\ file \in IngestFiles
    /\ df = <<>>
    /\ NoCall
    /\ NoRepeat
    /\ pc = "none"
    /\ config = DefaultConfig
    /\ script_baseline = EmptyDict
    /\ defined = {}

ValidateAndPreview ==
    /\ fn = "none"
    /\ fn' = "validate_and_preview_csv"
    /\ raised' = validate_and_preview_csv(file).raised
    /\ result' = validate_and_preview_csv(file).value
    /\ UNCHANGED <<df, records, threshold, peer_group, baseline, again,
                   scriptvars>>

NextIngest == ValidateAndPreview \/ Rerun

SpecIngest == InitIngest /\ [][NextIngest]_vars

----------------------------------------------------------------------------
(* The vocabulary of the claims, written from their statements: a peer     *)
(* group is the set of records sharing a key, a missing title being a key  *)
(* value like any other; prevalence is an exact fraction.                  *)

ClaimKey(r, pg) ==
    IF pg = "Department-wide" THEN <<r.Department>>
    ELSE <<r.Department, r.Title>>

ClaimGroups(frame, pg) == {ClaimKey(frame[i], pg) : i \in 1..Len(frame)}

ClaimMembers(frame, pg, k) == SelectSeq(frame, LAMBDA r : ClaimKey(r, pg) = k)

Identities(frame) == {frame[i].UserID : i \in 1..Len(frame)}

Pair(r) == <<r.Role, r.Entitlement>>

Held(frame) == {Pair(frame[i]) : i \in 1..Len(frame)}

Holders(frame, p) == {frame[i].UserID : i \in {j \in 1..Len(frame) : Pair(frame[j]) = p}}

\* the pairs held by at least (baseline) or at most (rare) thr percent of
\* the distinct identities of frame
ClaimBaselineSet(frame, thr) ==
    {p \in Held(frame) :
       Cardinality(Holders(frame, p)) * 100 >= thr * Cardinality(Identities(frame))}

ClaimRareSet(frame, thr) ==
    {p \in Held(frame) :
       Cardinality(Holders(frame, p)) * 100 <= thr * Cardinality(Identities(frame))}

ResultRows == BagToSet(result)

----------------------------------------------------------------------------
\* C1: baseline_access returns, for each peer group, exactly the pairs whose
\* distinct holders divided by the distinct identities of that same group
\* is at least threshold / 100.
C1_BaselineIsPrevalenceSet ==
    (fn = "baseline_access" /\ InRange(threshold)) =>
        baseline = [k \in ClaimGroups(records, peer_group) |->
                      ClaimBaselineSet(ClaimMembers(records, peer_group, k),
                                       threshold)]

\* C2: anomalies returns exactly one record for each (peer group, identity of
\* the group, pair the identity holds there that is in the group's rare set)
\* and no other record.
C2_OneRecordPerRareHolding ==
    (fn = "anomalies" /\ InRange(threshold)) =>
        result = SetToBag(UNION {
            LET members == ClaimMembers(records, peer_group, k)
            IN  {[Group |-> k, UserID |-> members[i].UserID,
                  Username |-> members[i].Username,
                  Role |-> members[i].Role,
                  Entitlement |-> members[i].Entitlement] :
                 i \in {j \in 1..Len(members) :
                          Pair(members[j]) \in ClaimRareSet(members, threshold)}}
            : k \in ClaimGroups(records, peer_group)})

\* the GapRecords the claims ask for: one for each group of the records
\* whose key is in the baseline dict and each pair of its baseline that no
\* record of the group holds
ClaimGaps(frame, baseline_map, pg) ==
    UNION {{[Group |-> k, Role |-> p[1], Entitlement |-> p[2]] :
              p \in baseline_map[k] \ Held(ClaimMembers(frame, pg, k))}
           : k \in ClaimGroups(frame, pg) \cap DOMAIN baseline_map}

\* C3: gap_report emits exactly one GapRecord for each group of the records
\* whose key is in baseline_map and each pair of baseline_map[group] that no
\* record of that group holds, and nothing else.
C3_GapIsBaselineMinusHeld ==
    fn = "gap_report" =>
        /\ result = SetToBag(ClaimGaps(records, baseline, peer_group))
        /\ \A g \in ResultRows :
             /\ CopiesIn(g, result) = 1
             /\ <<g.Role, g.Entitlement>> \in baseline[g.Group]
             /\ <<g.Role, g.Entitlement>> \notin
                    Held(ClaimMembers(records, peer_group, g.Group))

\* a gap_report call that returned a GapRecord, on records other than those
\* the baseline dict was built from
C3_Witness ==
    /\ fn = "gap_report"
    /\ result # EmptyBag
    /\ records # df

\* C4: get_peer_groups partitions its input: every record is in exactly one
\* group, the group of its key, a missing title being a key value of its own.
C4_GroupingIsPartition ==
    fn # "none" =>
        LET groups == get_peer_groups(records, peer_group)
        IN  /\ DOMAIN groups = ClaimGroups(records, peer_group)
            /\ \A k \in DOMAIN groups :
                 groups[k] = ClaimMembers(records, peer_group, k)

\* C5: a threshold outside (0, 100] makes baseline_access and anomalies raise
\* InvalidThreshold and give no result.
C5_InvalidThresholdRejected ==
    (fn \in {"baseline_access", "anomalies"} /\ ~InRange(threshold)) =>
        raised = "InvalidThreshold"

\* Scenario C: the baseline dict was computed on the titled rows of
\* department X and is {(R, E)} for X; gaps are computed by department on the
\* whole upload, in which an identity of X lacks (R, E)
ScenarioC ==
    /\ fn = "gap_report"
    /\ peer_group = "Department-wide"
    /\ records = df
    /\ df_baseline(df) # df
    /\ baseline = (<<"X">> :> {<<"R", "E">>})
    /\ \E t \in Thresholds :
         /\ InRange(t)
         /\ baseline = baseline_access(df_baseline(df), t, "Department-wide")
    /\ \E u \in Identities(ClaimMembers(df, "Department-wide", <<"X">>)) :
         u \notin Holders(ClaimMembers(df, "Department-wide", <<"X">>),
                          <<"R", "E">>)

\* C6 as stated: in Scenario C gap_report returns exactly one GapRecord,
\* (X, R, E).
C6_ScenarioC_OneGap ==
    ScenarioC =>
        result = SetToBag({[Group |-> <<"X">>, Role |-> "R",
                            Entitlement |-> "E"]})

\* C6 as amended: in Scenario C gap_report returns no GapRecord: (R, E) is
\* held by a record of department X, so it is no gap of X.
C6_ScenarioC_NoGap == ScenarioC => result = EmptyBag

C6_Witness == ScenarioC

\* C7: the keys of the dict baseline_access returns are exactly the peer
\* group keys that have a record.
C7_EveryGroupIsKey ==
    fn = "baseline_access" =>
        DOMAIN baseline = ClaimGroups(records, peer_group)

\* the records without those of group k
WithoutGroup(frame, pg, k) == SelectSeq(frame, LAMBDA r : ClaimKey(r, pg) # k)

\* C8: a group of the records that is absent from baseline_map contributes
\* no GapRecord and raises nothing, and the records of the other groups are
\* what they are without it.
C8_AbsentGroupSkipped ==
    fn = "gap_report" =>
        /\ raised = "none"
        /\ \A k \in ClaimGroups(records, peer_group) \ DOMAIN baseline :
             /\ \A g \in ResultRows : g.Group # k
             /\ result = gap_report(WithoutGroup(records, peer_group, k),
                                    baseline, peer_group)

\* a gap_report call that returned a GapRecord for one group while another
\* group of the records, itself with rows that gap_report groups, has no
\* entry in baseline_map
C8_Witness ==
    /\ fn = "gap_report"
    /\ result # EmptyBag
    /\ DOMAIN get_peer_groups(records, peer_group) \ DOMAIN baseline # {}

\* pair p is held by exactly thr percent of the identities of frame
AtThreshold(frame, p, thr) ==
    Cardinality(Holders(frame, p)) * 100 = thr * Cardinality(Identities(frame))

\* C9: a pair held by exactly threshold percent of a group's identities is
\* in the group's baseline set at that threshold, and in its rare set: each
\* identity holding it is reported by anomalies.
C9_BoundaryInclusive ==
    \A k \in ClaimGroups(records, peer_group) :
        LET members == ClaimMembers(records, peer_group, k)
        IN  \A p \in Held(members) :
              AtThreshold(members, p, threshold) =>
                /\ fn = "baseline_access" =>
                     k \in DOMAIN baseline /\ p \in baseline[k]
                /\ fn = "anomalies" =>
                     \A u \in Holders(members, p) :
                       \E a \in ResultRows :
                         /\ a.Group = k /\ a.UserID = u
                         /\ a.Role = p[1] /\ a.Entitlement = p[2]

\* C10 as stated: every pair in an output of baseline_access, anomalies or
\* gap_report is the pair of a record passed to that call.
C10_PairsFromRecords ==
    /\ fn = "baseline_access" =>
         \A k \in DOMAIN baseline : baseline[k] \subseteq Held(records)
    /\ fn \in {"anomalies", "gap_report"} =>
         \A a \in ResultRows : <<a.Role, a.Entitlement>> \in Held(records)

\* C10 as amended: every pair in an output of baseline_access or anomalies is
\* the pair of a record passed to that call; every pair in an output of
\* gap_report is a pair of baseline_map[group] of its group, so of a record
\* that the baseline dict was built from.
C10_PairsFromRecordsOrBaseline ==
    /\ fn = "baseline_access" =>
         \A k \in DOMAIN baseline : baseline[k] \subseteq Held(records)
    /\ fn = "anomalies" =>
         \A a \in ResultRows : <<a.Role, a.Entitlement>> \in Held(records)
    /\ fn = "gap_report" =>
         \A g \in ResultRows :
           /\ g.Group \in DOMAIN baseline
           /\ <<g.Role, g.Entitlement>> \in baseline[g.Group]
           /\ <<g.Role, g.Entitlement>> \in Held(df)

\* gap_report returned a pair that no record passed to it holds
C10_Witness ==
    /\ fn = "gap_report"
    /\ \E g \in ResultRows : <<g.Role, g.Entitlement>> \notin Held(records)

\* the baseline (is_baseline) or rare set the code computes for one group at
\* threshold thr
CodeSet(group_df, thr, is_baseline) ==
    LET counts == get_entitlement_counts(group_df)
    IN  filter_entitlements(counts[2], counts[1], thr, is_baseline)

\* the thresholds the call's own threshold is compared with: for each pair
\* of the group the whole percentages around its prevalence, where the sets
\* change, and one value at or beyond each end of the range
OtherThresholds(group_df) ==
    LET counts == get_entitlement_counts(group_df)
    IN  {0, 101} \cup
        UNION {{((counts[2][ent] * 100) \div counts[1]) + d : d \in {-1, 0, 1}}
               : ent \in {e \in DOMAIN counts[2] : counts[1] > 0}}

\* C11: for thresholds a < b and every group, the baseline set at b is a
\* subset of the baseline set at a and the rare set at a is a subset of the
\* rare set at b; the call's threshold is compared, as a and as b, with every
\* other threshold.
C11_MonotoneInThreshold ==
    fn \in {"baseline_access", "anomalies"} =>
        LET groups == get_peer_groups(records, peer_group)
        IN  \A k \in DOMAIN groups : \A t \in OtherThresholds(groups[k]) :
              LET a == IF t < threshold THEN t ELSE threshold
                  b == IF t < threshold THEN threshold ELSE t
              IN  /\ CodeSet(groups[k], b, TRUE) \subseteq
                         CodeSet(groups[k], a, TRUE)
                  /\ CodeSet(groups[k], a, FALSE) \subseteq
                         CodeSet(groups[k], b, FALSE)
                  /\ fn = "baseline_access" =>
                         baseline[k] = CodeSet(groups[k], threshold, TRUE)

\* a baseline_access call whose dict has, for some group, a set that is
\* strictly smaller than the one of a lower threshold, the rare set of the
\* group growing strictly between the same two thresholds
C11_Witness ==
    /\ fn = "baseline_access"
    /\ \E k \in DOMAIN baseline :
       \E a \in OtherThresholds(get_peer_groups(records, peer_group)[k]) :
         /\ a < threshold
         /\ baseline[k] # CodeSet(get_peer_groups(records, peer_group)[k],
                                  a, TRUE)
         /\ CodeSet(get_peer_groups(records, peer_group)[k], a, FALSE) #
                CodeSet(get_peer_groups(records, peer_group)[k],
                        threshold, FALSE)

C13_CountsWithinTotal ==
    fn # "none" =>
        LET groups == get_peer_groups(records, peer_group)
        IN  \A k \in DOMAIN groups :
              LET counts == get_entitlement_counts(groups[k])
              IN  /\ counts[1] >= 1
                  /\ counts[1] = Cardinality(Identities(groups[k]))
                  /\ \A ent \in DOMAIN counts[2] :
                       /\ counts[2][ent] >= 1
                       /\ counts[2][ent] <= counts[1]
                       /\ counts[2][ent] =
                              Cardinality(Holders(groups[k], ent))

\* the columns that must hold a value in every record
NonNullColumns == {"UserID", "Role", "Entitlement", "Department"}

\* every record of frame has a value in each of those columns
Validated(frame) ==
    \A i \in 1..Len(frame) : \A col \in NonNullColumns : frame[i][col] # NaN

\* C14: whenever the script calls baseline_access, anomalies or gap_report,
\* every record it passes has a value for identity id, role, entitlement and
\* organizational unit.
C14_AnalysisOnValidatedRecords ==
    fn # "none" => Validated(records)

\* the display name of the first record of identity user in frame
FirstName(frame, user) ==
    frame[CHOOSE i \in 1..Len(frame) :
            /\ frame[i].UserID = user
            /\ \A j \in 1..(i - 1) : frame[j].UserID # user].Username

\* C15: every AnomalyRecord carries the display name of the first record,
\* in input order, of its identity, so all AnomalyRecords of one identity
\* carry the same display name; stated for records that all have their
\* required values.
C15_FirstSeenDisplayName ==
    (fn = "anomalies" /\ Validated(records)) =>
        /\ \A a \in ResultRows : a.Username = FirstName(records, a.UserID)
        /\ \A a, b \in ResultRows :
             a.UserID = b.UserID => a.Username = b.Username

\* C19: when the script reaches the "Download Full Report as PDF" step,
\* generate_full_report_pdf has been defined, whatever the peer group and
\* whether or not the baseline table is empty.
C19_FullReportDefined ==
    pc = "full_pdf" => "generate_full_report_pdf" \in defined

\* C16: validate_and_preview_csv raises FileNotFoundError when the file does
\* not exist, EmptyDataError when the file is empty, ParserError when it
\* cannot be parsed and ValueError when the header or a required value does
\* not match the schema; otherwise, and only then, it returns the first
\* rows of the file, at most 5.
C16_DocumentedExceptions ==
    fn = "validate_and_preview_csv" =>
        /\ ~file.exists => raised = "FileNotFoundError"
        /\ (file.exists /\ file.kind = "empty") => raised = "EmptyDataError"
        /\ (file.exists /\ file.kind = "malformed") => raised = "ParserError"
        /\ (file.exists /\ file.kind = "csv" /\ file.rows = <<>>) =>
              raised \in {"EmptyDataError", "ValueError"}
        /\ (file.exists /\ file.kind = "csv" /\ file.rows # <<>>
               /\ (file.columns # "required" \/ ~Validated(file.rows))) =>
              raised = "ValueError"
        /\ (file.exists /\ file.kind = "csv" /\ file.rows # <<>>
               /\ file.columns = "required" /\ Validated(file.rows)) =>
              /\ raised = "none"
              /\ Len(result) <= 5
              /\ Len(result) = Len(file.rows) \/ Len(result) = 5
              /\ result = SubSeq(file.rows, 1, Len(result))
        /\ raised # "none" => result = <<>>

\* the frames made of some of the rows of frame, in their order
SubFrames(frame) ==
    {SelectSeq([i \in 1..Len(frame) |-> <<i, frame[i]>>],
               LAMBDA x : x[1] \in keep) : keep \in SUBSET (1..Len(frame))}

\* the rows of a frame of numbered rows
Rows(numbered) == [i \in 1..Len(numbered) |-> numbered[i][2]]

\* C17: when baseline_map is what baseline_access returns on some of the
\* records passed to gap_report, under the same grouping and a threshold in
\* (0, 100], gap_report returns no GapRecord: a call that returns one was
\* given no such baseline_map.
C17_NoGapFromSubsetBaseline ==
    (fn = "gap_report" /\ result # EmptyBag) =>
        \A sub \in SubFrames(records) :
          \A t \in {x \in Thresholds : InRange(x)} :
            baseline # baseline_access(Rows(sub), t, peer_group)

\* gap_report on the whole upload with the baseline of its titled rows, as
\* ui.py calls it: some rows have no title, the baseline of a group is not
\* empty and an identity of that group lacks one of its pairs
C17_Witness ==
    /\ fn = "gap_report"
    /\ records = df
    /\ df_baseline(df) # df
    /\ \E t \in {x \in Thresholds : InRange(x)} :
         baseline = baseline_access(df_baseline(df), t, peer_group)
    /\ \E k \in DOMAIN baseline \cap DOMAIN get_peer_groups(df, peer_group) :
         \E p \in baseline[k] :
           Holders(get_peer_groups(df, peer_group)[k], p) #
               Identities(get_peer_groups(df, peer_group)[k])
    /\ result = EmptyBag

\* C18: for thresholds a < b and every group, no pair is in both the
\* baseline set at b and the rare set at a, whatever the size of the group;
\* the call's threshold is taken as a and as b against the other thresholds
\* of the calls, the defaults 2 and 95 among them, and against those around
\* the prevalences of the group.
C18_DisjointWhenAnomalyBelowBaseline ==
    fn \in {"baseline_access", "anomalies"} =>
        LET groups == get_peer_groups(records, peer_group)
        IN  \A k \in DOMAIN groups :
              \A t \in OtherThresholds(groups[k]) \cup BulkThresholds
                         \cup WidgetThresholds :
                LET a == IF t < threshold THEN t ELSE threshold
                    b == IF t < threshold THEN threshold ELSE t
                IN  a < b =>
                      CodeSet(groups[k], b, TRUE) \cap
                          CodeSet(groups[k], a, FALSE) = {}

====
